---- MODULE Spec2Model ----
(***************************************************************************)
(* Model of the "mad painter" colouring game: the procedural stroke-layout *)
(* generator (src/utils/strokeGenerator.ts) and the App component that     *)
(* consumes its output (src/types.ts).                                     *)
(*                                                                         *)
(* Numbers.  JavaScript numbers are carried as fixed-point integers: a     *)
(* coordinate, length or distance v is the integer v * Scale (tenths of a  *)
(* canvas unit); an angle is a whole number of degrees; sines and cosines  *)
(* are integers over TrigScale.  Math.random() is the engine's pseudo      *)
(* random generator: a linear congruential generator whose state is part   *)
(* of the model's state and whose seed is arbitrary (Init draws it).       *)
(* A random value is the integer n standing for n / RandRes in [0, 1).     *)
(***************************************************************************)
EXTENDS Integers, Sequences, FiniteSets, TLC

\* ------------------------------------------------------------------ bounds
\* Seeds of the random generator that Init draws from: 0 .. MaxSeed.
MaxSeed == 11
\* generateSunflowersData calls made one after the other: 1 .. MaxCalls.
MaxCalls == 2

\* -------------------------------------------------------- number helpers
Scale == 10
TrigScale == 1000
RandRes == 1024

Min(a, b) == IF a < b THEN a ELSE b
Max(a, b) == IF a > b THEN a ELSE b

\* Math.sin for whole degrees 0 .. 90, times TrigScale.
SinTab ==
  << 0, 17, 35, 52, 70, 87, 105, 122, 139, 156, 174, 191, 208,
     225, 242, 259, 276, 292, 309, 326, 342, 358, 375, 391, 407, 423,
     438, 454, 469, 485, 500, 515, 530, 545, 559, 574, 588, 602, 616,
     629, 643, 656, 669, 682, 695, 707, 719, 731, 743, 755, 766, 777,
     788, 799, 809, 819, 829, 839, 848, 857, 866, 875, 883, 891, 899,
     906, 914, 921, 927, 934, 940, 946, 951, 956, 961, 966, 970, 974,
     978, 982, 985, 988, 990, 993, 995, 996, 998, 999, 999, 1000, 1000 >>

\* Math.sin((deg * Math.PI) / 180) * TrigScale
Sin(deg) ==
  LET a == deg % 360
  IN  IF a <= 90 THEN SinTab[a + 1]
      ELSE IF a <= 180 THEN SinTab[180 - a + 1]
      ELSE IF a <= 270 THEN -SinTab[a - 180 + 1]
      ELSE -SinTab[360 - a + 1]

\* Math.cos((deg * Math.PI) / 180) * TrigScale
Cos(deg) == Sin(deg + 90)

\* Math.sqrt, rounded down (Newton's iteration on integers).
RECURSIVE SqrtIter(_, _)
SqrtIter(n, x) ==
  LET y == (x + n \div x) \div 2
  IN  IF y >= x THEN x ELSE SqrtIter(n, y)

Sqrt(n) == IF n < 2 THEN n ELSE SqrtIter(n, n)

\* ------------------------------------------------------------ Math.random
\* The generator's next state, and the value in 0 .. RandRes-1 a state yields.
NextRng(s) == (s * 25173 + 13849) % 65536
RandomOf(s) == NextRng(s) \div (65536 \div RandRes)

\* ---------------------------------------------------------------- palette
EarthYellow == "#D4A056"
BrightYellow == "#FFD54F"
OchreSienna == "#8D6E63"
GrassGreen == "#558B2F"
SkyBlue == "#81D4FA"
ErrorRed == "#EF5350"

PALETTE_COLORS == << EarthYellow, BrightYellow, OchreSienna, GrassGreen, SkyBlue >>

\* ------------------------------------------------------- strokeGenerator.ts
\* uid: Math.random().toString(36).substr(2, 9), the first nine base-36
\* digits of the fraction n / RandRes (the expansion stops when it is exact).
RECURSIVE Base36Digits(_, _)
Base36Digits(num, left) ==
  IF num = 0 \/ left = 0 THEN << >>
  ELSE << (num * 36) \div RandRes >> \o Base36Digits((num * 36) % RandRes, left - 1)

uid(n) == Base36Digits(n, 9)

getStrokeBounds(x, y, length, angle, width, curvature) ==
  LET dx == (Cos(angle) * length) \div TrigScale
      dy == (Sin(angle) * length) \div TrigScale
      thicknessX == (Sin(angle) * width) \div TrigScale
      thicknessY == (-Cos(angle) * width) \div TrigScale
      cx == x + dx \div 2 - (Sin(angle) * curvature) \div TrigScale
      cy == y + dy \div 2 + (Cos(angle) * curvature) \div TrigScale
      xs == { x, x + dx, x + thicknessX, x + dx + thicknessX, cx, cx + thicknessX }
      ys == { y, y + dy, y + thicknessY, y + dy + thicknessY, cy, cy + thicknessY }
  IN  [ minX |-> CHOOSE v \in xs : \A w \in xs : v <= w,
        minY |-> CHOOSE v \in ys : \A w \in ys : v <= w,
        maxX |-> CHOOSE v \in xs : \A w \in xs : v >= w,
        maxY |-> CHOOSE v \in ys : \A w \in ys : v >= w ]

\* Mutant: the overlap is taken against the larger box.
boxesOverlapOfLarger(box1, box2, threshold) ==
  LET intersectX == Max(0, Min(box1.maxX, box2.maxX) - Max(box1.minX, box2.minX))
      intersectY == Max(0, Min(box1.maxY, box2.maxY) - Max(box1.minY, box2.minY))
      area1 == (box1.maxX - box1.minX) * (box1.maxY - box1.minY)
      area2 == (box2.maxX - box2.minX) * (box2.maxY - box2.minY)
  IN  IF intersectX * intersectY = 0 THEN FALSE
      ELSE intersectX * intersectY * 100 > threshold * Max(area1, area2)

\* threshold is in percent (0.3 is 30).
boxesOverlap(box1, box2, threshold) ==
  LET intersectX == Max(0, Min(box1.maxX, box2.maxX) - Max(box1.minX, box2.minX))
      intersectY == Max(0, Min(box1.maxY, box2.maxY) - Max(box1.minY, box2.minY))
      intersectArea == intersectX * intersectY
      area1 == (box1.maxX - box1.minX) * (box1.maxY - box1.minY)
      area2 == (box2.maxX - box2.minX) * (box2.maxY - box2.minY)
      minArea == Min(area1, area2)
  IN  IF intersectArea = 0 THEN FALSE
      ELSE intersectArea * 100 > threshold * minArea

getStrokeCenter(x, y, length, angle) ==
  LET dx == (Cos(angle) * length) \div TrigScale
      dy == (Sin(angle) * length) \div TrigScale
  IN  [ x |-> x + dx \div 2, y |-> y + dy \div 2 ]

distance(p1, p2) ==
  LET dx == p1.x - p2.x
      dy == p1.y - p2.y
  IN  Sqrt(dx * dx + dy * dy)

\* The Path2D, as the six points that define its outline.
createBrushStroke(x, y, length, angle, width, curvature) ==
  LET dx == (Cos(angle) * length) \div TrigScale
      dy == (Sin(angle) * length) \div TrigScale
      cx == x + dx \div 2 - (Sin(angle) * curvature) \div TrigScale
      cy == y + dy \div 2 + (Cos(angle) * curvature) \div TrigScale
      thicknessX == (Sin(angle) * width) \div TrigScale
      thicknessY == (-Cos(angle) * width) \div TrigScale
  IN  [ start    |-> [ x |-> x, y |-> y ],
        ctrl     |-> [ x |-> cx, y |-> cy ],
        end      |-> [ x |-> x + dx, y |-> y + dy ],
        endOff   |-> [ x |-> x + dx + thicknessX, y |-> y + dy + thicknessY ],
        ctrlOff  |-> [ x |-> cx + thicknessX, y |-> cy + thicknessY ],
        startOff |-> [ x |-> x + thicknessX, y |-> y + thicknessY ] ]

createShape(type, color, zIndex) == [ type |-> type, color |-> color, zIndex |-> zIndex ]

\* Constants of generateSunflowersData.
margin == 5
maxSkyStrokes == 18
maxRetries == maxSkyStrokes * 4
maxTableStrokes == 12
maxTableRetries == maxTableStrokes * 4
maxVaseStrokes == 10
maxVaseRetries == maxVaseStrokes * 4
stemPoints == 3
petalCount == 6

\* The flowers array: position (in Scale units) and radius of flower idx (0, 1, 2).
flowers(width, height) ==
  << [ x |-> (width * Scale * 35) \div 100, y |-> (height * Scale * 50) \div 100, r |-> 42 ],
     [ x |-> (width * Scale * 72) \div 100, y |-> (height * Scale * 35) \div 100, r |-> 32 ],
     [ x |-> (width * Scale * 58) \div 100, y |-> (height * Scale * 52) \div 100, r |-> 28 ] >>

horizonY(height) == (height * Scale * 65) \div 100
vaseCenterX(width) == (width * Scale) \div 2
vaseBaseY(height) == (height * Scale * 85) \div 100
vaseTopY(height) == (height * Scale * 55) \div 100
vaseWidthTop(width) == (width * Scale * 15) \div 100
vaseWidthBody(width) == (width * Scale * 25) \div 100

\* (Math.random() - 0.5) * span, for the random value n.
Centered(n, span) == ((2 * n - RandRes) * span) \div (2 * RandRes)

\* Map.get(color) || []
GetOrEmpty(map, color) == IF color \in DOMAIN map THEN map[color] ELSE << >>

\* Map.set(color, []) when absent, then push.
PushInto(map, color, v) ==
  IF color \in DOMAIN map
  THEN [ map EXCEPT ![color] = Append(@, v) ]
  ELSE map @@ (color :> << v >>)

\* The closure state of one generateSunflowersData call at its first loop head
\* (strokes, shapes, the two accumulators, zIndexCounter, the loop variables),
\* with rng the state of Math.random.  Some fields only observe the call:
\* calls, the number of addStroke calls made; regionCalls, those made by the
\* region loop at hand; pointCalls, those made for the stem point or petal
\* at hand; minDistOf, the minDistance each stroke was accepted with;
\* regionOf, the region, flower and stem point or petal each stroke was
\* accepted for; last, the candidate of the latest addStroke call, the
\* options it was called with and whether it was accepted; seed, the state Math.random was in when the call began;
\* call, the number of calls made before this one.
NoCandidate ==
  [ x |-> 0, y |-> 0, length |-> 0, width |-> 0, angle |-> 0, curvature |-> 0,
    minDistance |-> 0, color |-> "null", accepted |-> FALSE,
    options |-> [ f \in {} |-> 0 ] ]

GenStart(width, height, seed) ==
  [ pc |-> "sky", rng |-> seed, width |-> width, height |-> height,
    strokes |-> << >>,
    shapes |-> << createShape("rect", SkyBlue, 0) >>,
    strokeBoundsByColor |-> [ c \in {} |-> << >> ],
    strokeCentersByColor |-> [ c \in {} |-> << >> ],
    zIndexCounter |-> 0,
    attempt |-> 0, skyStrokesAdded |-> 0, tableStrokesAdded |-> 0,
    vaseStrokesAdded |-> 0, stemStrokesAdded |-> 0, centerDotsAdded |-> 0,
    idx |-> 0, k |-> 0, j |-> 0, retry |-> 0, strokeAdded |-> FALSE,
    beforeCount |-> 0, calls |-> 0, regionCalls |-> 0, minDistOf |-> << >>,
    pointCalls |-> 0, regionOf |-> << >>, last |-> NoCandidate,
    seed |-> seed, call |-> 0 ]

\* Mutant: the accumulators and the counter outlive the call (module level).
nextCallSharing(g) ==
  [ GenStart(g.width, g.height, g.rng) EXCEPT
      !.strokeBoundsByColor = g.strokeBoundsByColor,
      !.strokeCentersByColor = g.strokeCentersByColor,
      !.zIndexCounter = g.zIndexCounter,
      !.call = g.call + 1 ]

\* The caller invokes generateSunflowersData again after the call g returned:
\* lines 140-146 run anew, Math.random goes on from where it is.
nextCall(g) == [ GenStart(g.width, g.height, g.rng) EXCEPT !.call = g.call + 1 ]

\* Mutant: only the left and top edges are tested.
OutOfCanvasLeftTop(bounds, width, height) ==
  \/ bounds.minX < -margin * Scale
  \/ bounds.minY < -margin * Scale

\* Mutant: everything is out of the canvas.
OutOfCanvasAlways(bounds, width, height) == TRUE

\* The margin test of addStroke.
OutOfCanvas(bounds, width, height) ==
  \/ bounds.minX < -margin * Scale
  \/ bounds.minY < -margin * Scale
  \/ bounds.maxX > (width + margin) * Scale
  \/ bounds.maxY > (height + margin) * Scale

\* Mutant: only the stroke accepted last is tested.
TooCloseToLast(g, color, center, minDist) ==
  LET sameColorCenters == GetOrEmpty(g.strokeCentersByColor, color)
  IN  /\ Len(sameColorCenters) > 0
      /\ distance(center, sameColorCenters[Len(sameColorCenters)]) < minDist

\* sameColorCenters.some(c => distance(center, c) < minDist)
TooClose(g, color, center, minDist) ==
  LET sameColorCenters == GetOrEmpty(g.strokeCentersByColor, color)
  IN  \E i \in 1..Len(sameColorCenters) : distance(center, sameColorCenters[i]) < minDist

\* Mutant: the boxes of every color are tested.
HasSignificantOverlapAnyColor(g, color, bounds) ==
  \E c \in DOMAIN g.strokeBoundsByColor :
    \E i \in 1..Len(g.strokeBoundsByColor[c]) :
      boxesOverlap(bounds, g.strokeBoundsByColor[c][i], 30)

\* sameColorBounds.some(b => boxesOverlap(bounds, b, 0.3))
HasSignificantOverlap(g, color, bounds) ==
  LET sameColorBounds == GetOrEmpty(g.strokeBoundsByColor, color)
  IN  \E i \in 1..Len(sameColorBounds) : boxesOverlap(bounds, sameColorBounds[i], 30)

\* Mutant: the candidate's bounds and center were stored before the tests.
SkipAfterStoring(called, color, bounds, center) ==
  [ called EXCEPT !.strokeBoundsByColor = PushInto(@, color, bounds),
                  !.strokeCentersByColor = PushInto(@, color, center) ]

\* return; (the candidate is skipped): the closure state is as the call
\* found it.
Skip(called, color, bounds, center) == called

\* The region loop the call at hand is made by, and the flower and the stem
\* point or petal it is made for (0 where there is none).
RegionAt(g) ==
  [ region |-> CASE g.pc = "stemRetry" -> "stem" [] g.pc = "petalRetry" -> "petal"
                 [] OTHER -> g.pc,
    idx |-> g.idx,
    point |-> CASE g.pc \in { "stem", "stemRetry" } -> g.k
                [] g.pc \in { "petal", "petalRetry" } -> g.j
                [] OTHER -> 0 ]

\* options.f || fallback: the option is used when given and not 0.
Given(options, f) == f \in DOMAIN options /\ options[f] # 0

\* Mutant: the stroke is put at the head of the list.
unshift(list, stroke) == << stroke >> \o list

\* strokes.push(stroke)
push(list, stroke) == Append(list, stroke)

\* Mutant: the counter is not advanced.
NoIncrement(n) == n

\* zIndexCounter++
PostIncrement(n) == n + 1

\* addStroke(x, y, color, options): the closure state after the call.  The
\* random draws are made in the code's order: length, width, angle, curvature,
\* each only when the option does not supply it, then uid() on acceptance.
addStroke(g, x, y, color, options) ==
  LET r0 == g.rng
      len == IF Given(options, "length") THEN options.length
             ELSE 15 * Scale + (RandomOf(r0) * 15 * Scale) \div RandRes
      r1 == IF Given(options, "length") THEN r0 ELSE NextRng(r0)
      wid == IF Given(options, "width") THEN options.width
             ELSE 4 * Scale + (RandomOf(r1) * 3 * Scale) \div RandRes
      r2 == IF Given(options, "width") THEN r1 ELSE NextRng(r1)
      ang == IF "angle" \in DOMAIN options THEN options.angle
             ELSE (RandomOf(r2) * 360) \div RandRes
      r3 == IF "angle" \in DOMAIN options THEN r2 ELSE NextRng(r2)
      curv == IF Given(options, "curvature") THEN options.curvature
              ELSE Centered(RandomOf(r3), 10 * Scale)
      r4 == IF Given(options, "curvature") THEN r3 ELSE NextRng(r3)
      minDist == IF Given(options, "minDistance") THEN options.minDistance ELSE 15 * Scale
      bounds == getStrokeBounds(x, y, len, ang, wid, curv)
      center == getStrokeCenter(x, y, len, ang)
      called == [ g EXCEPT !.rng = r4, !.calls = @ + 1, !.regionCalls = @ + 1,
                           !.pointCalls = @ + 1,
                           !.last = [ x |-> x, y |-> y, length |-> len, width |-> wid,
                                      angle |-> ang, curvature |-> curv,
                                      minDistance |-> minDist, color |-> color,
                                      accepted |-> FALSE, options |-> options ] ]
  IN  IF OutOfCanvas(bounds, g.width, g.height) THEN Skip(called, color, bounds, center)
      ELSE IF TooClose(g, color, center, minDist) THEN Skip(called, color, bounds, center)
      ELSE IF HasSignificantOverlap(g, color, bounds)
      THEN Skip(called, color, bounds, center)
      ELSE [ called EXCEPT
               !.last.accepted = TRUE,
               !.regionOf = Append(@, RegionAt(g)),
               !.strokes = push(@, [ id |-> uid(RandomOf(r4)),
                                     path |-> createBrushStroke(x, y, len, ang, wid, curv),
                                     targetColor |-> color,
                                     currentColor |-> "null",
                                     zIndex |-> g.zIndexCounter ]),
               !.minDistOf = Append(@, minDist),
               !.rng = NextRng(r4),
               !.zIndexCounter = PostIncrement(@),
               !.strokeBoundsByColor = PushInto(@, color, bounds),
               !.strokeCentersByColor = PushInto(@, color, center) ]

\* The value of strokes.length > beforeCount after an addStroke call.
Added(g) == Len(g.strokes) > g.beforeCount

\* The next three values of Math.random and the state after them.
Draw3(s) ==
  LET s1 == NextRng(s)
      s2 == NextRng(s1)
  IN  [ n1 |-> RandomOf(s), n2 |-> RandomOf(s1), n3 |-> RandomOf(s2), rng |-> NextRng(s2) ]

\* Mutant: the sky loop runs until its attempts are used up.
SkyLoopAllAttempts(g) == g.attempt < maxRetries

\* --- 1. Background (Sky): one pass of the loop body.
SkyLoop(g) == g.attempt < maxRetries /\ g.skyStrokesAdded < maxSkyStrokes

skyAttempt(g) ==
  LET d == Draw3(g.rng)
      x == (d.n1 * g.width * Scale) \div RandRes
      y == (d.n2 * horizonY(g.height)) \div RandRes
      after == addStroke([ g EXCEPT !.rng = d.rng, !.beforeCount = Len(g.strokes) ],
                         x, y, SkyBlue,
                         [ angle |-> 0 + Centered(d.n3, 15), length |-> 45 * Scale,
                           width |-> 14 * Scale, minDistance |-> 28 * Scale ])
  IN  [ after EXCEPT !.skyStrokesAdded = IF Added(after) THEN @ + 1 ELSE @,
                     !.attempt = @ + 1 ]

\* The sky loop is over: the table's shape is pushed and its loop starts.
skyExit(g) ==
  [ g EXCEPT !.shapes = Append(@, createShape("rect", EarthYellow, 1)),
             !.attempt = 0, !.tableStrokesAdded = 0, !.regionCalls = 0, !.pc = "table" ]

\* --- 2. Table (Earth)
TableLoop(g) == g.attempt < maxTableRetries /\ g.tableStrokesAdded < maxTableStrokes

tableAttempt(g) ==
  LET d == Draw3(g.rng)
      x == (d.n1 * g.width * Scale) \div RandRes
      y == horizonY(g.height) + (d.n2 * (g.height * Scale - horizonY(g.height))) \div RandRes
      after == addStroke([ g EXCEPT !.rng = d.rng, !.beforeCount = Len(g.strokes) ],
                         x, y, EarthYellow,
                         [ angle |-> 0 + Centered(d.n3, 5), length |-> 50 * Scale,
                           width |-> 16 * Scale, minDistance |-> 32 * Scale ])
  IN  [ after EXCEPT !.tableStrokesAdded = IF Added(after) THEN @ + 1 ELSE @,
                     !.attempt = @ + 1 ]

tableExit(g) ==
  [ g EXCEPT !.shapes = Append(@, createShape("path", GrassGreen, 2)),
             !.attempt = 0, !.vaseStrokesAdded = 0, !.regionCalls = 0, !.pc = "vase" ]

\* --- 3. Vase (Green)
VaseLoop(g) == g.attempt < maxVaseRetries /\ g.vaseStrokesAdded < maxVaseStrokes

vaseAttempt(g) ==
  LET d == Draw3(g.rng)
      base == vaseBaseY(g.height)
      top == vaseTopY(g.height)
      y == base - (d.n1 * (base - top)) \div RandRes
      curveT == Sin((d.n1 * 180) \div RandRes)
      currentW == (vaseWidthBody(g.width) * curveT
                   + vaseWidthTop(g.width) * (TrigScale - curveT)) \div TrigScale
      x == vaseCenterX(g.width) + ((2 * d.n2 - RandRes) * currentW * 8) \div (RandRes * 10)
      after == addStroke([ g EXCEPT !.rng = d.rng, !.beforeCount = Len(g.strokes) ],
                         x, y, GrassGreen,
                         [ angle |-> 90 + Centered(d.n3, 20), length |-> 32 * Scale,
                           width |-> 12 * Scale, minDistance |-> 22 * Scale ])
  IN  [ after EXCEPT !.vaseStrokesAdded = IF Added(after) THEN @ + 1 ELSE @,
                     !.attempt = @ + 1 ]

\* The start of the forEach callback for flower idx: the stem's shape is
\* pushed and the stem loops start; after the last flower the function returns.
flowerStart(g, idx) ==
  IF idx < Len(flowers(g.width, g.height))
  THEN [ g EXCEPT !.shapes = Append(@, createShape("path", GrassGreen, 3)),
                  !.idx = idx, !.stemStrokesAdded = 0, !.k = 0, !.retry = 0,
                  !.strokeAdded = FALSE, !.regionCalls = 0, !.pointCalls = 0,
                  !.pc = "stem" ]
  ELSE [ g EXCEPT !.idx = idx, !.pc = "done" ]

vaseExit(g) == flowerStart(g, 0)

\* --- 4. Flowers: stems
Flower(g) == flowers(g.width, g.height)[g.idx + 1]

\* cx, cy of stem sample point k of the current flower.
StemPoint(g) ==
  LET flower == Flower(g)
      stemOffsetX == ((flower.x - vaseCenterX(g.width)) * 3) \div 10
      sx == flower.x
      sy == flower.y + flower.r * Scale
      ex == vaseCenterX(g.width) + stemOffsetX
      ey == vaseTopY(g.height)
      curveOffset == (Sin((g.k * 180) \div stemPoints)
                      * (IF g.idx % 2 = 0 THEN -15 ELSE 15) * Scale) \div TrigScale
  IN  [ x |-> sx + ((ex - sx) * g.k) \div stemPoints + curveOffset,
        y |-> sy + ((ey - sy) * g.k) \div stemPoints ]

\* Mutant: the loop over the stem points runs to k = stemPoints.
StemLoopInclusive(g) == g.k <= stemPoints

\* for (let k = 0; k < stemPoints; k++)
StemLoop(g) == g.k < stemPoints

\* for (let j = 0; j < petalCount; j++)
PetalLoop(g) == g.j < petalCount

\* Mutant: one pass more.
RetryLoopFour(g) == g.retry < 4 /\ ~g.strokeAdded

RetryLoop(g) == g.retry < 3 /\ ~g.strokeAdded

\* The first addStroke of one pass of the retry loop.
stemPrimary(g) ==
  LET n == RandomOf(g.rng)
      p == StemPoint(g)
      after == addStroke([ g EXCEPT !.rng = NextRng(g.rng), !.beforeCount = Len(g.strokes) ],
                         p.x, p.y, GrassGreen,
                         [ angle |-> 75 + (n * 25) \div RandRes, length |-> 26 * Scale,
                           width |-> 10 * Scale, minDistance |-> 20 * Scale ])
  IN  IF Added(after)
      THEN [ after EXCEPT !.strokeAdded = TRUE, !.stemStrokesAdded = @ + 1, !.retry = @ + 1 ]
      ELSE IF g.retry < 2 THEN [ after EXCEPT !.pc = "stemRetry" ]
      ELSE [ after EXCEPT !.retry = @ + 1 ]

\* The second addStroke of the pass (retry < 2), at a slight offset.
stemJitter(g) ==
  LET d == Draw3(g.rng)
      p == StemPoint(g)
      offset == ((g.retry + 1) * 15 * Scale) \div 10
      after == addStroke([ g EXCEPT !.rng = d.rng ],
                         p.x + Centered(d.n1, offset), p.y + Centered(d.n2, offset), GrassGreen,
                         [ angle |-> 75 + (d.n3 * 25) \div RandRes, length |-> 26 * Scale,
                           width |-> 10 * Scale, minDistance |-> 20 * Scale ])
  IN  [ after EXCEPT !.strokeAdded = Added(after),
                     !.stemStrokesAdded = IF Added(after) THEN @ + 1 ELSE @,
                     !.retry = @ + 1, !.pc = "stem" ]

\* The retry loop of sample point k is over: k++.
stemNext(g) ==
  [ g EXCEPT !.k = @ + 1, !.retry = 0, !.strokeAdded = FALSE, !.pointCalls = 0 ]

\* Mutant: the ellipse of the first petal is not pushed.
petalStartSkipFirst(g, j) ==
  IF j < petalCount /\ j > 0
  THEN [ g EXCEPT !.shapes = Append(@, createShape("ellipse", BrightYellow, 4)),
                  !.j = j, !.retry = 0, !.strokeAdded = FALSE, !.pointCalls = 0,
                  !.pc = "petal" ]
  ELSE [ g EXCEPT !.j = j, !.retry = 0, !.strokeAdded = FALSE, !.pointCalls = 0,
                  !.regionCalls = IF j = 0 THEN 0 ELSE @, !.pc = "petal" ]

\* A petal's ellipse is pushed at the top of its pass of the petal loop.
petalStart(g, j) ==
  IF j < petalCount
  THEN [ g EXCEPT !.shapes = Append(@, createShape("ellipse", BrightYellow, 4)),
                  !.j = j, !.retry = 0, !.strokeAdded = FALSE, !.pointCalls = 0,
                  !.regionCalls = IF j = 0 THEN 0 ELSE @, !.pc = "petal" ]
  ELSE [ g EXCEPT !.j = j, !.pc = "petal" ]

stemExit(g) == petalStart(g, 0)

\* --- Petals
\* Mutant: the petal is put at 7.5 radii instead of 0.75.
PetalPointFar(g) ==
  LET flower == Flower(g)
      angleDeg == (g.j * 360) \div petalCount
      dist == (flower.r * Scale * 750) \div 100
  IN  [ x |-> flower.x + (Cos(angleDeg) * dist) \div TrigScale,
        y |-> flower.y + (Sin(angleDeg) * dist) \div TrigScale,
        angleDeg |-> angleDeg ]

PetalPoint(g) ==
  LET flower == Flower(g)
      angleDeg == (g.j * 360) \div petalCount
      dist == (flower.r * Scale * 75) \div 100
  IN  [ x |-> flower.x + (Cos(angleDeg) * dist) \div TrigScale,
        y |-> flower.y + (Sin(angleDeg) * dist) \div TrigScale,
        angleDeg |-> angleDeg ]

PetalOptions(g) ==
  [ angle |-> PetalPoint(g).angleDeg, length |-> (Flower(g).r * Scale * 11) \div 10,
    width |-> 14 * Scale, curvature |-> 5 * Scale, minDistance |-> 14 * Scale ]

petalPrimary(g) ==
  LET p == PetalPoint(g)
      after == addStroke([ g EXCEPT !.beforeCount = Len(g.strokes) ],
                         p.x, p.y, BrightYellow, PetalOptions(g))
  IN  IF Added(after)
      THEN [ after EXCEPT !.strokeAdded = TRUE, !.retry = @ + 1 ]
      ELSE IF g.retry < 2 THEN [ after EXCEPT !.pc = "petalRetry" ]
      ELSE [ after EXCEPT !.retry = @ + 1 ]

petalJitter(g) ==
  LET s1 == NextRng(g.rng)
      p == PetalPoint(g)
      offset == (g.retry + 1) * 2 * Scale
      after == addStroke([ g EXCEPT !.rng = NextRng(s1) ],
                         p.x + Centered(RandomOf(g.rng), offset),
                         p.y + Centered(RandomOf(s1), offset),
                         BrightYellow, PetalOptions(g))
  IN  [ after EXCEPT !.strokeAdded = Added(after), !.retry = @ + 1, !.pc = "petal" ]

petalNext(g) == petalStart(g, g.j + 1)

\* --- Center
centerDots(idx) == IF idx = 0 THEN 4 ELSE 3
maxCenterRetries(idx) == centerDots(idx) * 6

petalExit(g) ==
  [ g EXCEPT !.shapes = Append(@, createShape("circle",
                                  IF g.idx = 2 THEN "#A0522D" ELSE "#8B4513", 5)),
             !.attempt = 0, !.centerDotsAdded = 0, !.regionCalls = 0, !.pc = "center" ]

CenterLoop(g) ==
  g.attempt < maxCenterRetries(g.idx) /\ g.centerDotsAdded < centerDots(g.idx)

centerAttempt(g) ==
  LET d == Draw3(g.rng)
      flower == Flower(g)
      r == (d.n1 * ((flower.r * Scale * 35) \div 100)) \div RandRes
      theta == (d.n2 * 360) \div RandRes
      after == addStroke([ g EXCEPT !.rng = d.rng, !.beforeCount = Len(g.strokes) ],
                         flower.x + (r * Cos(theta)) \div TrigScale,
                         flower.y + (r * Sin(theta)) \div TrigScale,
                         OchreSienna,
                         [ angle |-> (d.n3 * 360) \div RandRes, length |-> 14 * Scale,
                           width |-> 12 * Scale, curvature |-> 0, minDistance |-> 12 * Scale ])
  IN  [ after EXCEPT !.centerDotsAdded = IF Added(after) THEN @ + 1 ELSE @,
                     !.attempt = @ + 1 ]

centerExit(g) == flowerStart(g, g.idx + 1)

\* One step of the call from closure state g.
GenStep(g) ==
  CASE g.pc = "sky" -> IF SkyLoop(g) THEN skyAttempt(g) ELSE skyExit(g)
    [] g.pc = "table" -> IF TableLoop(g) THEN tableAttempt(g) ELSE tableExit(g)
    [] g.pc = "vase" -> IF VaseLoop(g) THEN vaseAttempt(g) ELSE vaseExit(g)
    [] g.pc = "stem" -> IF ~StemLoop(g) THEN stemExit(g)
                        ELSE IF RetryLoop(g) THEN stemPrimary(g) ELSE stemNext(g)
    [] g.pc = "stemRetry" -> stemJitter(g)
    [] g.pc = "petal" -> IF ~PetalLoop(g) THEN petalExit(g)
                         ELSE IF RetryLoop(g) THEN petalPrimary(g) ELSE petalNext(g)
    [] g.pc = "petalRetry" -> petalJitter(g)
    [] g.pc = "center" -> IF CenterLoop(g) THEN centerAttempt(g) ELSE centerExit(g)
    [] OTHER -> g

\* n steps of the call from closure state g (by halving, to keep the
\* evaluation shallow); a call that has returned stays as it is.
RECURSIVE GenSteps(_, _)
GenSteps(g, n) ==
  IF n = 0 THEN g
  ELSE IF n = 1 THEN GenStep(g)
  ELSE LET half == GenSteps(g, n \div 2)
       IN  IF half.pc = "done" THEN half ELSE GenSteps(half, n - n \div 2)

\* No call takes more steps than this: every addStroke call is one step
\* (at most maxRetries + maxTableRetries + maxVaseRetries, and per flower
\* 5 per stem point, 5 per petal and maxCenterRetries), every loop exit and
\* every k++ or j++ another.
MaxGenSteps ==
  maxRetries + maxTableRetries + maxVaseRetries + 3
  + 3 * (5 * stemPoints + 5 * petalCount + maxCenterRetries(0) + stemPoints + petalCount + 3)

RunGen(g) == GenSteps(g, MaxGenSteps)

\* generateSunflowersData(width, height), with seed the state of Math.random
\* at the call: the LevelData it returns, and with it the state Math.random
\* is left in.
LevelDataOf(g) == [ strokes |-> g.strokes, shapes |-> g.shapes, rng |-> g.rng ]

generateSunflowersData(width, height, seed) ==
  LevelDataOf(RunGen(GenStart(width, height, seed)))

\* ------------------------------------------------------- the App component
\* Bounds of the game: the Math.random states a session starts from, the
\* startGame calls, the handleStrokeClick calls and the waits of a session,
\* and the frames of a long and of a short wait.
MaxGameSeed == 0
MaxStarts == 2
MaxClicks == 2
MaxWaits == 2
LongWait == 1500
ShortWait == 200

\* madness is held in units of MADNESS_INCREASE_RATE (0.05): 20 to the point.
MadnessScale == 20
CANVAS_WIDTH == 360
CANVAS_HEIGHT == 640
MADNESS_INCREASE_RATE == 1
MADNESS_PENALTY == 15 * MadnessScale
MADNESS_REWARD == 2 * MadnessScale

\* hintTimerRef.current: null, or a pending timer whose callback holds the
\* triggerHint of the render that set it, that is the colors
\* getAvailableHintColors gave then.
NoTimer == [ pending |-> FALSE, availableColors |-> << >> ]

\* The useState and useRef values of the first render.  timers, levelSeed,
\* clicked, starts, clicks and waits only observe the session: the number of
\* hint timers set and neither fired nor cleared, the number of clicks given
\* the 30-point reduction since the latest hint was shown, the state Math.random
\* was in at the last generateSunflowersData call, the ids handleStrokeClick
\* was called with since while playing, and the numbers of startGame calls,
\* handleStrokeClick calls while playing and waits.  strokesId stands for
\* the identity of the strokes array, which is what a dependency list
\* compares: it changes whenever setStrokes is given a new array, and is 0
\* again once the renders that follow have settled.
AppStart ==
  [ strokes |-> << >>, strokesId |-> 0, shapes |-> << >>,
    gameState |-> [ status |-> "idle", madness |-> 0, startTime |-> "0", endTime |-> "null" ],
    selectedColor |-> PALETTE_COLORS[1],
    paintingsCompleted |-> 0,
    hintColor |-> "null", hintMessage |-> "", hintRewarded |-> FALSE,
    hintVisible |-> FALSE, isSatisfiedMessage |-> FALSE,
    hintTimerRef |-> NoTimer, satisfiedTimerRef |-> "null", timers |-> 0,
    rewards |-> 0, levelSeed |-> -1, clicked |-> {}, starts |-> 0, clicks |-> 0, waits |-> 0 ]

\* The members of a set of numbers, in ascending order.
RECURSIVE Ascending(_)
Ascending(S) ==
  IF S = {} THEN << >>
  ELSE LET least == CHOOSE i \in S : \A h \in S : i <= h
       IN  << least >> \o Ascending(S \ { least })

\* The target colors of the unfilled strokes, in the order a Set keeps them
\* (that of the first unfilled stroke of each), without the selected color.
getAvailableHintColors(a) ==
  LET Unfilled(i) == a.strokes[i].currentColor # a.strokes[i].targetColor
      firsts == { i \in 1..Len(a.strokes) :
                    /\ Unfilled(i)
                    /\ \A h \in 1..(i - 1) :
                         Unfilled(h) => a.strokes[h].targetColor # a.strokes[i].targetColor }
      order == Ascending(firsts)
      unfilledColors == [ n \in 1..Len(order) |-> a.strokes[order[n]].targetColor ]
      NotSelected(color) == color # a.selectedColor
  IN  SelectSeq(unfilledColors, NotSelected)

\* triggerHint with the colors its getAvailableHintColors gives; pick is the
\* index Math.floor(Math.random() * availableColors.length) + 1.
triggerHint(a, availableColors, pick) ==
  IF Len(availableColors) = 0
  THEN [ a EXCEPT !.hintVisible = FALSE, !.hintColor = "null",
                  !.hintMessage = "", !.hintRewarded = FALSE ]
  ELSE [ a EXCEPT !.hintColor = availableColors[pick], !.hintMessage = "hint",
                  !.hintVisible = TRUE, !.hintRewarded = FALSE,
                  !.isSatisfiedMessage = FALSE, !.rewards = 0 ]

\* Mutant: the satisfied-message timer is left running.
startGameKeepingTimer(a, levelData, seed) ==
  [ a EXCEPT !.strokes = levelData.strokes,
             !.strokesId = @ + 1,
             !.shapes = levelData.shapes,
             !.gameState = [ status |-> "playing", madness |-> 0,
                             startTime |-> "now", endTime |-> "null" ],
             !.selectedColor = PALETTE_COLORS[1],
             !.hintColor = "null", !.hintMessage = "", !.hintRewarded = FALSE,
             !.hintVisible = FALSE, !.isSatisfiedMessage = FALSE,
             !.hintTimerRef = NoTimer,
             !.timers = IF a.hintTimerRef.pending THEN @ - 1 ELSE @,
             !.rewards = 0, !.levelSeed = seed, !.clicked = {}, !.starts = @ + 1 ]

startGame(a, levelData, seed) ==
  [ a EXCEPT !.strokes = levelData.strokes,
             !.strokesId = @ + 1,
             !.shapes = levelData.shapes,
             !.gameState = [ status |-> "playing", madness |-> 0,
                             startTime |-> "now", endTime |-> "null" ],
             !.selectedColor = PALETTE_COLORS[1],
             !.hintColor = "null", !.hintMessage = "", !.hintRewarded = FALSE,
             !.hintVisible = FALSE, !.isSatisfiedMessage = FALSE,
             !.hintTimerRef = NoTimer, !.satisfiedTimerRef = "null",
             !.timers = IF a.hintTimerRef.pending THEN @ - 1 ELSE @,
             !.rewards = 0, !.levelSeed = seed, !.clicked = {}, !.starts = @ + 1 ]

\* Mutant: at the cap the callback leaves the game as it is.
gameLoopTickStuck(prev) ==
  IF prev.status # "playing" \/ prev.madness + MADNESS_INCREASE_RATE >= 100 * MadnessScale
  THEN prev
  ELSE [ prev EXCEPT !.madness = @ + MADNESS_INCREASE_RATE ]

\* Mutant: the callback does not test the status.
gameLoopTickAnyStatus(prev) ==
  LET newMadness == prev.madness + MADNESS_INCREASE_RATE
  IN  IF newMadness >= 100 * MadnessScale
      THEN [ prev EXCEPT !.status = "lost", !.madness = 100 * MadnessScale,
                         !.endTime = "now" ]
      ELSE [ prev EXCEPT !.madness = newMadness ]

\* Mutant: the cap is applied, the status is left as it is.
gameLoopTickNoLoss(prev) ==
  IF prev.status # "playing" THEN prev
  ELSE [ prev EXCEPT !.madness = Min(100 * MadnessScale, @ + MADNESS_INCREASE_RATE) ]

\* The setInterval callback of the game loop.
gameLoopTick(prev) ==
  IF prev.status # "playing" THEN prev
  ELSE LET newMadness == prev.madness + MADNESS_INCREASE_RATE
       IN  IF newMadness >= 100 * MadnessScale
           THEN [ prev EXCEPT !.status = "lost", !.madness = 100 * MadnessScale,
                              !.endTime = "now" ]
           ELSE [ prev EXCEPT !.madness = newMadness ]

\* n callbacks of the game loop in a row.
RECURSIVE gameLoopTicks(_, _)
gameLoopTicks(prev, n) ==
  IF n = 0 THEN prev
  ELSE IF n = 1 THEN gameLoopTick(prev)
  ELSE LET half == gameLoopTicks(prev, n \div 2)
       IN  IF half.status # "playing" THEN half ELSE gameLoopTicks(half, n - n \div 2)

\* prevStrokes.findIndex(s => s.id === strokeId), from 1; 0 for -1.
findIndex(prevStrokes, strokeId) ==
  LET found == { i \in 1..Len(prevStrokes) : prevStrokes[i].id = strokeId }
  IN  IF found = {} THEN 0 ELSE CHOOSE i \in found : \A h \in found : i <= h

\* Mutant: the stroke takes the color as its target as well.
paintOverTarget(stroke, selectedColor) ==
  [ stroke EXCEPT !.currentColor = selectedColor, !.targetColor = selectedColor ]

\* { ...stroke, currentColor: selectedColor }
newStroke(stroke, selectedColor) == [ stroke EXCEPT !.currentColor = selectedColor ]

\* Mutant: madness is not capped at 100.
clickMadnessNoCap(gs, isCorrect, isHintedColor) ==
  LET change == IF isCorrect
                THEN IF isHintedColor THEN -30 * MadnessScale ELSE -MADNESS_REWARD
                ELSE MADNESS_PENALTY
      newMad == Max(0, gs.madness + change)
  IN  [ gs EXCEPT !.madness = newMad,
                  !.status = IF newMad >= 100 * MadnessScale THEN "lost" ELSE @,
                  !.endTime = IF newMad >= 100 * MadnessScale THEN "now" ELSE "null" ]

\* Mutant: following the hint is rewarded like any correct click.
clickMadnessPlainReward(gs, isCorrect, isHintedColor) ==
  LET change == IF isCorrect THEN -MADNESS_REWARD ELSE MADNESS_PENALTY
      newMad == Max(0, Min(100 * MadnessScale, gs.madness + change))
  IN  [ gs EXCEPT !.madness = newMad,
                  !.status = IF newMad >= 100 * MadnessScale THEN "lost" ELSE @,
                  !.endTime = IF newMad >= 100 * MadnessScale THEN "now" ELSE "null" ]

\* The madness update of a click.
clickMadness(gs, isCorrect, isHintedColor) ==
  LET change == IF isCorrect
                THEN IF isHintedColor THEN -30 * MadnessScale ELSE -MADNESS_REWARD
                ELSE MADNESS_PENALTY
      newMad == Max(0, Min(100 * MadnessScale, gs.madness + change))
  IN  [ gs EXCEPT !.madness = newMad,
                  !.status = IF newMad >= 100 * MadnessScale THEN "lost" ELSE @,
                  !.endTime = IF newMad >= 100 * MadnessScale THEN "now" ELSE "null" ]

\* Mutant: a hint already rewarded counts again.
isHintedColorAgain(a) == a.hintColor # "null" /\ a.selectedColor = a.hintColor

\* hintColor !== null && selectedColor === hintColor && !hintRewarded
isHintedColor(a) ==
  a.hintColor # "null" /\ a.selectedColor = a.hintColor /\ ~a.hintRewarded

handleStrokeClick(a, strokeId) ==
  LET called == [ a EXCEPT !.clicked = @ \cup { strokeId }, !.clicks = @ + 1 ]
      index == findIndex(a.strokes, strokeId)
      stroke == a.strokes[index]
      isCorrect == a.selectedColor = stroke.targetColor
      painted == [ called EXCEPT
                     !.gameState = clickMadness(@, isCorrect, isHintedColor(a)),
                     !.strokes[index] = newStroke(stroke, a.selectedColor),
                     !.strokesId = @ + 1 ]
  IN  IF a.gameState.status # "playing" THEN a
      ELSE IF index = 0 THEN called
      ELSE IF stroke.currentColor = stroke.targetColor THEN called
      ELSE IF isHintedColor(a) /\ isCorrect
      THEN [ painted EXCEPT !.hintRewarded = TRUE, !.isSatisfiedMessage = TRUE,
                            !.rewards = @ + 1,
                            !.hintMessage = "satisfied",
                            !.hintTimerRef = NoTimer, !.satisfiedTimerRef = "pending",
                            !.timers = IF a.hintTimerRef.pending THEN @ - 1 ELSE @ ]
      ELSE painted

\* --- GameCanvas.  ctx.isPointInPath(path, x, y), by the nonzero winding
\* rule, each of the two curves of the outline taken as the two chords through
\* its middle point.
isPointInPath(path, x, y) ==
  LET Middle(p, c, q) == [ x |-> (p.x + 2 * c.x + q.x) \div 4,
                           y |-> (p.y + 2 * c.y + q.y) \div 4 ]
      outline == << path.start, Middle(path.start, path.ctrl, path.end), path.end,
                    path.endOff, Middle(path.endOff, path.ctrlOff, path.startOff),
                    path.startOff >>
      Side(p, q) == (q.x - p.x) * (y - p.y) - (x - p.x) * (q.y - p.y)
      Turn(p, q) == IF p.y <= y /\ q.y > y /\ Side(p, q) > 0 THEN 1
                    ELSE IF p.y > y /\ q.y <= y /\ Side(p, q) < 0 THEN -1
                    ELSE 0
  IN  Turn(outline[1], outline[2]) + Turn(outline[2], outline[3])
      + Turn(outline[3], outline[4]) + Turn(outline[4], outline[5])
      + Turn(outline[5], outline[6]) + Turn(outline[6], outline[1]) # 0

\* Mutant: the strokes are scanned from the first one on.
RECURSIVE scanUp(_, _, _, _)
scanUp(strokes, i, x, y) ==
  IF i = 0 THEN << >>
  ELSE IF isPointInPath(strokes[Len(strokes) + 1 - i].path, x, y)
  THEN << strokes[Len(strokes) + 1 - i].id >>
  ELSE scanUp(strokes, i - 1, x, y)

\* for (let i = ...; i >= 0; i--): the ids onStrokeClick is called with, the
\* scan being at stroke i (counted from 1).
RECURSIVE scanDown(_, _, _, _)
scanDown(strokes, i, x, y) ==
  IF i = 0 THEN << >>
  ELSE IF isPointInPath(strokes[i].path, x, y) THEN << strokes[i].id >>
  ELSE scanDown(strokes, i - 1, x, y)

\* handleClick of a canvas of width x height showing strokes, for a click at
\* (clientX, clientY) while the canvas element takes up rect (both held in
\* tenths): the ids onStrokeClick is called with.
handleClick(strokes, isReality, width, height, rect, clientX, clientY) ==
  LET wider == width * rect.height > rect.width * height
      renderedWidth == IF wider THEN rect.width ELSE (rect.height * width) \div height
      renderedHeight == IF wider THEN (rect.width * height) \div width ELSE rect.height
      offsetX == IF wider THEN 0 ELSE (rect.width - renderedWidth) \div 2
      offsetY == IF wider THEN (rect.height - renderedHeight) \div 2 ELSE 0
      clickX == clientX - rect.left - offsetX
      clickY == clientY - rect.top - offsetY
  IN  IF isReality THEN << >>
      ELSE IF clickX < 0 \/ clickX > renderedWidth \/ clickY < 0 \/ clickY > renderedHeight
      THEN << >>
      ELSE scanDown(strokes, Len(strokes), (clickX * width * Scale) \div renderedWidth,
                    (clickY * height * Scale) \div renderedHeight)

\* The callback of the hint timer.
hintTimerFired(a, pick) ==
  LET hinted == IF a.gameState.status = "playing" /\ a.gameState.madness > 50 * MadnessScale
                THEN triggerHint(a, a.hintTimerRef.availableColors, pick)
                ELSE a
  IN  [ hinted EXCEPT !.hintTimerRef = NoTimer, !.timers = @ - 1 ]

\* The callback of the satisfied timer; the ref keeps the spent handle.
satisfiedTimerFired(a) ==
  [ a EXCEPT !.isSatisfiedMessage = FALSE, !.hintVisible = FALSE,
             !.hintColor = "null", !.hintMessage = "",
             !.satisfiedTimerRef = "fired" ]

\* --- The effects.  r is the render an effect belongs to (its closure), a the
\* state its updates and the refs are at.
triggerHintDeps(a) == << a.strokesId, a.selectedColor >>

hintEffectDeps(a) ==
  << a.gameState.status, a.gameState.madness, a.hintVisible, triggerHintDeps(a) >>

scheduleHint(r, a) ==
  [ a EXCEPT !.hintTimerRef = [ pending |-> TRUE,
                                availableColors |-> getAvailableHintColors(r) ],
             !.timers = @ + 1 ]

hintEffect(r, a) ==
  IF r.gameState.status # "playing"
  THEN [ a EXCEPT !.hintTimerRef = NoTimer, !.hintVisible = FALSE,
                  !.timers = IF a.hintTimerRef.pending THEN @ - 1 ELSE @ ]
  ELSE IF r.gameState.madness <= 50 * MadnessScale
  THEN [ a EXCEPT !.hintVisible = FALSE, !.hintColor = "null", !.hintMessage = "",
                  !.hintRewarded = FALSE, !.hintTimerRef = NoTimer,
                  !.timers = IF a.hintTimerRef.pending THEN @ - 1 ELSE @ ]
  ELSE IF ~r.hintVisible /\ ~a.hintTimerRef.pending THEN scheduleHint(r, a)
  ELSE a

rewardEffectDeps(a) ==
  << a.hintRewarded, a.hintVisible, a.gameState.status, a.gameState.madness,
     triggerHintDeps(a) >>

\* Mutant: a timer is set whether or not one is pending.
rewardEffectAnyTimer(r, a) ==
  IF r.gameState.status # "playing" \/ r.gameState.madness <= 50 * MadnessScale THEN a
  ELSE IF r.hintRewarded /\ ~r.hintVisible THEN scheduleHint(r, a)
  ELSE a

rewardEffect(r, a) ==
  IF r.gameState.status # "playing" \/ r.gameState.madness <= 50 * MadnessScale THEN a
  ELSE IF r.hintRewarded /\ ~r.hintVisible /\ ~a.hintTimerRef.pending
  THEN scheduleHint(r, a)
  ELSE a

winEffectDeps(a) == << a.strokesId, a.gameState.status >>

\* Mutant: one filled stroke is enough.
someFilled(strokes) ==
  \E i \in 1..Len(strokes) : strokes[i].currentColor = strokes[i].targetColor

\* strokes.every(s => s.currentColor === s.targetColor)
allFilled(strokes) ==
  \A i \in 1..Len(strokes) : strokes[i].currentColor = strokes[i].targetColor

winEffect(r, a) ==
  IF r.gameState.status # "playing" THEN a
  ELSE IF allFilled(r.strokes) /\ Len(r.strokes) > 0
  THEN [ a EXCEPT !.paintingsCompleted = @ + 1,
                  !.gameState = [ @ EXCEPT !.status = "won", !.endTime = "now" ] ]
  ELSE a

\* The state an effect can set (neither the strokes nor the selected color;
\* a ref is no state): when it is left as it was, no further render follows.
Rendered(a) ==
  << a.gameState, a.paintingsCompleted, a.hintColor, a.hintMessage,
     a.hintRewarded, a.hintVisible, a.isSatisfiedMessage >>

\* The renders that follow an update: after the render of cur (the one
\* before it showed prev) the effects whose dependencies changed run in
\* their order; their updates make the next render, until none is left.
RECURSIVE Settle(_, _)
Settle(prev, cur) ==
  LET a1 == IF hintEffectDeps(prev) # hintEffectDeps(cur) THEN hintEffect(cur, cur) ELSE cur
      a2 == IF rewardEffectDeps(prev) # rewardEffectDeps(cur) THEN rewardEffect(cur, a1) ELSE a1
      a3 == IF winEffectDeps(prev) # winEffectDeps(cur) THEN winEffect(cur, a2) ELSE a2
  IN  IF Rendered(a3) = Rendered(cur) THEN [ a3 EXCEPT !.strokesId = 0 ]
      ELSE Settle(cur, a3)

\* The ids a click can carry: those of the first and of the last stroke of
\* the list, and one that no stroke has; while the message of a followed hint
\* is shown and the hinted color selected, that of the second stroke as well
\* (it has the first one's target color).
ClickIds(a) ==
  { a.strokes[i].id :
      i \in ({ 1, Len(a.strokes) }
               \cup (IF a.hintRewarded /\ a.hintVisible /\ a.selectedColor = a.hintColor
                     THEN { 2 } ELSE {}))
              \cap DOMAIN a.strokes } \cup { << >> }

\* The player paints stroke i as it should be: the palette button of its
\* target color (when another color is selected), then a click on the stroke.
\* The clicks of a painting run are not counted one by one.
clickSelected(a, selected, i) ==
  [ Settle(selected, handleStrokeClick(selected, selected.strokes[i].id))
      EXCEPT !.clicks = a.clicks ]

paintStroke(a, i) ==
  IF a.selectedColor = a.strokes[i].targetColor THEN clickSelected(a, a, i)
  ELSE clickSelected(a, Settle(a, [ a EXCEPT !.selectedColor = a.strokes[i].targetColor ]), i)

\* Stroke i is still to be painted and a click can reach it: it is the
\* first stroke of its id.
Paintable(a, i) ==
  /\ a.gameState.status = "playing"
  /\ a.strokes[i].currentColor # a.strokes[i].targetColor
  /\ findIndex(a.strokes, a.strokes[i].id) = i

\* The strokes lo .. hi painted in list order (by halving, to keep the
\* evaluation shallow).
RECURSIVE paintStrokes(_, _, _)
paintStrokes(a, lo, hi) ==
  IF lo > hi THEN a
  ELSE IF lo = hi THEN (IF Paintable(a, lo) THEN paintStroke(a, lo) ELSE a)
  ELSE LET half == paintStrokes(a, lo, (lo + hi) \div 2)
       IN  IF half.gameState.status # "playing" THEN half
           ELSE paintStrokes(half, (lo + hi) \div 2 + 1, hi)

\* The generateSunflowersData calls of the sessions, each with the state of
\* Math.random it found: n calls in a row from state seed.
RECURSIVE LevelsFrom(_, _)
LevelsAfter(seed, levelData, n) ==
  { [ seed |-> seed, levelData |-> levelData ] } \cup LevelsFrom(levelData.rng, n)

LevelsFrom(seed, n) ==
  IF n = 0 THEN {}
  ELSE LevelsAfter(seed, generateSunflowersData(CANVAS_WIDTH, CANVAS_HEIGHT, seed), n - 1)

\* The states of Math.random a session starts from.
GameSeeds == { 247 + k : k \in 0..MaxGameSeed }

SessionLevels == UNION { LevelsFrom(seed, MaxStarts) : seed \in GameSeeds }

\* What the call returns when Math.random is in state rng.
LevelDataAt(rng) == (CHOOSE e \in SessionLevels : e.seed = rng).levelData

\* ------------------------------------------------------------------ state
\* gen: the closure state of the generateSunflowersData call under way (in a
\* session: the one startGame makes next).  app: the state of App.
\* steps: the number of steps the call under way has taken.
VARIABLES gen, app, steps

vars == << gen, app, steps >>

\* The canvas sizes generateSunflowersData is called with.
Canvases == { << 360, 640 >>, << 10, 10 >>, << 1, 1 >> }

Init ==
  /\ \E c \in Canvases, seed \in 0..MaxSeed : gen = GenStart(c[1], c[2], seed)
  /\ app = AppStart
  /\ steps = 0

\* ------------------------------------------- steps of generateSunflowersData
\* Each step of the call is counted and leaves App as it is.
Stepped == steps' = steps + 1 /\ UNCHANGED app

SkyAttempt ==
  gen.pc = "sky" /\ SkyLoop(gen) /\ gen' = skyAttempt(gen) /\ Stepped
SkyExit ==
  gen.pc = "sky" /\ ~SkyLoop(gen) /\ gen' = skyExit(gen) /\ Stepped
TableAttempt ==
  gen.pc = "table" /\ TableLoop(gen) /\ gen' = tableAttempt(gen) /\ Stepped
TableExit ==
  gen.pc = "table" /\ ~TableLoop(gen) /\ gen' = tableExit(gen) /\ Stepped
VaseAttempt ==
  gen.pc = "vase" /\ VaseLoop(gen) /\ gen' = vaseAttempt(gen) /\ Stepped
VaseExit ==
  gen.pc = "vase" /\ ~VaseLoop(gen) /\ gen' = vaseExit(gen) /\ Stepped
StemPrimary ==
  /\ gen.pc = "stem" /\ StemLoop(gen) /\ RetryLoop(gen)
  /\ gen' = stemPrimary(gen) /\ Stepped
StemJitter == gen.pc = "stemRetry" /\ gen' = stemJitter(gen) /\ Stepped
StemNext ==
  /\ gen.pc = "stem" /\ StemLoop(gen) /\ ~RetryLoop(gen)
  /\ gen' = stemNext(gen) /\ Stepped
StemExit ==
  gen.pc = "stem" /\ ~StemLoop(gen) /\ gen' = stemExit(gen) /\ Stepped
PetalPrimary ==
  /\ gen.pc = "petal" /\ PetalLoop(gen) /\ RetryLoop(gen)
  /\ gen' = petalPrimary(gen) /\ Stepped
PetalJitter == gen.pc = "petalRetry" /\ gen' = petalJitter(gen) /\ Stepped
PetalNext ==
  /\ gen.pc = "petal" /\ PetalLoop(gen) /\ ~RetryLoop(gen)
  /\ gen' = petalNext(gen) /\ Stepped
PetalExit ==
  gen.pc = "petal" /\ ~PetalLoop(gen) /\ gen' = petalExit(gen) /\ Stepped
CenterAttempt ==
  gen.pc = "center" /\ CenterLoop(gen) /\ gen' = centerAttempt(gen) /\ Stepped
CenterExit ==
  gen.pc = "center" /\ ~CenterLoop(gen) /\ gen' = centerExit(gen) /\ Stepped

\* The call has returned and the caller makes the next one.
CallAgain ==
  /\ gen.pc = "done" /\ gen.call + 1 < MaxCalls
  /\ gen' = nextCall(gen)
  /\ steps' = 0
  /\ UNCHANGED app

Next ==
  \/ SkyAttempt \/ SkyExit
  \/ TableAttempt \/ TableExit
  \/ VaseAttempt \/ VaseExit
  \/ StemPrimary \/ StemJitter \/ StemNext \/ StemExit
  \/ PetalPrimary \/ PetalJitter \/ PetalNext \/ PetalExit
  \/ CenterAttempt \/ CenterExit
  \/ CallAgain

Spec == Init /\ [][Next]_vars

\* The call runs to its end: a step that can be taken is taken.  Until the
\* call has returned a step of it can be taken, and every step of a call
\* advances steps, so this is weak fairness of the call's steps (the caller
\* is not bound to call again).
Advance == gen.pc # "done" /\ steps' = steps + 1

FairSpec == Spec /\ WF_steps(Advance)

\* ------------------------------------------------------ steps of a session
\* A session starts from the first render, with Math.random in some state.
GameInit ==
  /\ \E seed \in GameSeeds : gen = GenStart(CANVAS_WIDTH, CANVAS_HEIGHT, seed)
  /\ app = AppStart
  /\ steps = 0

\* startGame, its generateSunflowersData call returning levelData.
StartWith(levelData) ==
  /\ app' = Settle(app, startGame(app, levelData, gen.rng))
  /\ gen' = GenStart(gen.width, gen.height, levelData.rng)
  /\ UNCHANGED steps

\* The start button, shown when no game is being played.
StartGame ==
  /\ app.gameState.status # "playing"
  /\ app.starts < MaxStarts
  /\ StartWith(LevelDataAt(gen.rng))

\* A palette button, shown while playing (one of another color: the selected
\* color's own button changes nothing).
SelectColor ==
  /\ app.gameState.status = "playing"
  /\ \E i \in 1..Len(PALETTE_COLORS) :
       /\ PALETTE_COLORS[i] # app.selectedColor
       /\ app' = Settle(app, [ app EXCEPT !.selectedColor = PALETTE_COLORS[i] ])
  /\ UNCHANGED << gen, steps >>

\* Frames pass: the game loop's callback runs once, or LongWait times, or,
\* while a hint is shown that the player has not followed, and before the
\* first click, ShortWait times.
Wait ==
  /\ app.gameState.status = "playing"
  /\ app.waits < MaxWaits
  /\ \E n \in { 1, LongWait }
               \cup (IF app.hintVisible /\ ~app.hintRewarded /\ app.clicks = 0
                     THEN { ShortWait } ELSE {}) :
       app' = Settle(app, [ app EXCEPT !.gameState = gameLoopTicks(@, n),
                                       !.waits = @ + 1 ])
  /\ UNCHANGED << gen, steps >>

HandleStrokeClick ==
  /\ app.gameState.status # "idle"
  /\ app.clicks < MaxClicks
  /\ \E strokeId \in ClickIds(app) : app' = Settle(app, handleStrokeClick(app, strokeId))
  /\ UNCHANGED << gen, steps >>

\* The player paints a level not clicked yet, every stroke as it should be,
\* one after the other with no frame and no timer in between.  The run uses
\* up the session's single clicks.
PaintLevel ==
  /\ app.gameState.status = "playing"
  /\ app.clicked = {}
  /\ app' = [ paintStrokes(app, 1, Len(app.strokes)) EXCEPT !.clicks = MaxClicks ]
  /\ UNCHANGED << gen, steps >>

HintTimerFires ==
  /\ app.hintTimerRef.pending
  /\ \E pick \in 1..Max(1, Len(app.hintTimerRef.availableColors)) :
       app' = Settle(app, hintTimerFired(app, pick))
  /\ UNCHANGED << gen, steps >>

SatisfiedTimerFires ==
  /\ app.satisfiedTimerRef = "pending"
  /\ app' = Settle(app, satisfiedTimerFired(app))
  /\ UNCHANGED << gen, steps >>

GameNext ==
  \/ StartGame
  \/ SelectColor
  \/ Wait
  \/ HandleStrokeClick
  \/ PaintLevel
  \/ HintTimerFires
  \/ SatisfiedTimerFires

GameSpec == GameInit /\ [][GameNext]_vars

\* --- A session in which the player makes no correct click.  The interval of
\* the game loop runs as long as the status is 'playing' (it is cleared only
\* by the cleanup of the effect, when the status changes), so its callbacks
\* keep coming: LongWait of them at a time, not counted; steps flips with
\* each batch of them.
Tick ==
  /\ app.gameState.status = "playing"
  /\ app' = Settle(app, [ app EXCEPT !.gameState = gameLoopTicks(@, LongWait) ])
  /\ steps' = 1 - steps
  /\ UNCHANGED gen

\* A click that is not a correct one: on no stroke, on a stroke already
\* filled, or with a color that is not the stroke's target color.
WrongClick ==
  /\ app.gameState.status = "playing"
  /\ app.clicks < MaxClicks
  /\ \E strokeId \in ClickIds(app) :
       /\ IF findIndex(app.strokes, strokeId) = 0 THEN TRUE
          ELSE app.selectedColor # app.strokes[findIndex(app.strokes, strokeId)].targetColor
               \/ app.selectedColor = app.strokes[findIndex(app.strokes, strokeId)].currentColor
       /\ app' = Settle(app, handleStrokeClick(app, strokeId))
  /\ UNCHANGED << gen, steps >>

\* The callbacks of the interval are run: weak fairness of Tick, the only
\* step that changes steps.
Ticking == app.gameState.status = "playing" /\ steps' = 1 - steps

TickSpec ==
  /\ GameInit
  /\ [][StartGame \/ SelectColor \/ Tick \/ WrongClick \/ HintTimerFires]_vars
  /\ WF_steps(Ticking)

\* ============================================================ claims
\* What the claims read off a stroke: the bounding box of the six points of
\* its path, and the midpoint of its centerline.
PathBounds(path) ==
  LET pts == { path.start, path.ctrl, path.end, path.endOff, path.ctrlOff, path.startOff }
  IN  [ minX |-> CHOOSE v \in { p.x : p \in pts } : \A p \in pts : v <= p.x,
        minY |-> CHOOSE v \in { p.y : p \in pts } : \A p \in pts : v <= p.y,
        maxX |-> CHOOSE v \in { p.x : p \in pts } : \A p \in pts : v >= p.x,
        maxY |-> CHOOSE v \in { p.y : p \in pts } : \A p \in pts : v >= p.y ]

PathMidpoint(path) ==
  [ x |-> path.start.x + (path.end.x - path.start.x) \div 2,
    y |-> path.start.y + (path.end.y - path.start.y) \div 2 ]

BoxArea(b) == (b.maxX - b.minX) * (b.maxY - b.minY)

IntersectionArea(a, b) ==
  Max(0, Min(a.maxX, b.maxX) - Max(a.minX, b.minX))
  * Max(0, Min(a.maxY, b.maxY) - Max(a.minY, b.minY))

Returned == gen.pc = "done"

\* Pairs of positions of distinct returned strokes with the same targetColor.
SameColorPairs ==
  { p \in (1..Len(gen.strokes)) \X (1..Len(gen.strokes)) :
      p[1] < p[2] /\ gen.strokes[p[1]].targetColor = gen.strokes[p[2]].targetColor }

Rejections == gen.calls - Len(gen.strokes)

\* C1: in the returned LevelData, the bounding boxes of two strokes of the
\* same targetColor intersect in at most 0.30 of the smaller box's area.
C1_OverlapWithinColor ==
  Returned =>
    \A p \in SameColorPairs :
      LET a == PathBounds(gen.strokes[p[1]].path)
          b == PathBounds(gen.strokes[p[2]].path)
      IN  IntersectionArea(a, b) * 100 <= 30 * Min(BoxArea(a), BoxArea(b))

\* C1 witness: a returned level in which candidates were rejected and two
\* strokes of one colour do overlap (within the threshold).
C1_Witness ==
  /\ Returned /\ Rejections > 0
  /\ \E p \in SameColorPairs :
       IntersectionArea(PathBounds(gen.strokes[p[1]].path),
                        PathBounds(gen.strokes[p[2]].path)) > 0

MidDistance(i, j) ==
  distance(PathMidpoint(gen.strokes[i].path), PathMidpoint(gen.strokes[j].path))

\* C2 as stated: two returned strokes of the same targetColor have their
\* midpoints at least as far apart as the minimum distance of the region of
\* each of the two (so a vase and a stem stroke at least 22).
C2_SpacingOfBothRegions ==
  Returned =>
    \A p \in SameColorPairs :
      /\ MidDistance(p[1], p[2]) >= gen.minDistOf[p[1]]
      /\ MidDistance(p[1], p[2]) >= gen.minDistOf[p[2]]

\* C2 amended: the midpoints are at least as far apart as the minimum
\* distance of the region of the stroke placed later (a vase and a stem
\* stroke at least 20, the stem's).
C2_SpacingOfLaterRegion ==
  Returned =>
    \A p \in SameColorPairs : MidDistance(p[1], p[2]) >= gen.minDistOf[p[2]]

\* C2 witness: a stem stroke was accepted nearer to a vase stroke than the
\* vase's own minimum distance.
C2_Witness ==
  /\ Returned
  /\ \E p \in SameColorPairs :
       /\ gen.minDistOf[p[1]] > gen.minDistOf[p[2]]
       /\ MidDistance(p[1], p[2]) < gen.minDistOf[p[1]]

\* C3: every returned stroke's bounding box lies in
\* [-5, width+5] x [-5, height+5].
C3_WithinMargin ==
  Returned =>
    \A i \in 1..Len(gen.strokes) :
      LET b == PathBounds(gen.strokes[i].path)
      IN  /\ b.minX >= -5 * Scale
          /\ b.minY >= -5 * Scale
          /\ b.maxX <= (gen.width + 5) * Scale
          /\ b.maxY <= (gen.height + 5) * Scale

\* C3 witness: candidates were rejected and a returned stroke reaches into
\* the margin beyond the canvas edge.
C3_Witness ==
  /\ Returned /\ Rejections > 0
  /\ \E i \in 1..Len(gen.strokes) :
       LET b == PathBounds(gen.strokes[i].path)
       IN  b.minX < 0 \/ b.maxX > gen.width * Scale

\* C4: zIndex is strictly increasing along the returned strokes list.
C4_ZIndexIncreasing ==
  Returned =>
    \A i \in 1..Len(gen.strokes), j \in 1..Len(gen.strokes) :
      i < j => gen.strokes[i].zIndex < gen.strokes[j].zIndex

\* C4 witness: a returned list of several strokes, with rejections between.
C4_Witness == Returned /\ Len(gen.strokes) >= 2 /\ Rejections > 0

\* C5: the ids of the returned strokes are pairwise distinct.
C5_IdsDistinct ==
  Returned =>
    \A i \in 1..Len(gen.strokes), j \in 1..Len(gen.strokes) :
      i # j => gen.strokes[i].id # gen.strokes[j].id

\* The addStroke calls the claim allows the region loop at hand.
RegionBudget ==
  CASE gen.pc = "sky" -> 72
    [] gen.pc = "table" -> 48
    [] gen.pc = "vase" -> 40
    [] gen.pc \in { "stem", "stemRetry" } -> 15
    [] gen.pc \in { "petal", "petalRetry" } -> 30
    [] gen.pc = "center" -> 6 * (IF gen.idx = 0 THEN 4 ELSE 3)
    [] OTHER -> 18

\* C6: the call ends, and it makes at most 355 addStroke calls in all and at
\* most its budget in each region loop (sky 72, table 48, vase 40, stem 15,
\* petals 30, center 6 times the dot target).
C6_EndsWithinBudget ==
  /\ <>Returned
  /\ [](gen.calls <= 355 /\ gen.regionCalls <= RegionBudget)

\* C6 witness: every candidate was rejected and the call has returned after
\* exactly 355 addStroke calls.
C6_Witness == Returned /\ Len(gen.strokes) = 0 /\ gen.calls = 355

\* C7 as stated: for any positive width and height the returned strokes and
\* shapes are both non-empty.
C7_NonEmptyAnySize == Returned => Len(gen.strokes) >= 1 /\ Len(gen.shapes) >= 1

\* C7 amended: shapes is non-empty for any positive width and height, and
\* strokes is non-empty for 360 x 640; for a canvas too small for the
\* candidates (1 x 1, 10 x 10) strokes may be empty.
C7_NonEmptyWhenStrokesFit ==
  Returned =>
    /\ Len(gen.shapes) >= 1
    /\ (gen.width = 360 /\ gen.height = 640 => Len(gen.strokes) >= 1)

\* C7 witness: a call for a very small canvas has made all its addStroke
\* calls and returned shapes and no stroke.
C7_Witness ==
  /\ Returned /\ gen.width <= 10 /\ gen.height <= 10 /\ gen.calls > 0
  /\ Len(gen.strokes) = 0 /\ Len(gen.shapes) >= 1

\* The first petal candidate of the first flower on a canvas.
FirstPetal(width, height) ==
  PetalPoint([ GenStart(width, height, 0) EXCEPT !.idx = 0, !.j = 0 ])

\* The first BrightYellow stroke of the list starts at point pt.
FirstYellowAt(pt) ==
  \E i \in 1..Len(gen.strokes) :
    /\ gen.strokes[i].targetColor = BrightYellow
    /\ gen.strokes[i].path.start = [ x |-> pt.x, y |-> pt.y ]
    /\ \A h \in 1..(i - 1) : gen.strokes[h].targetColor # BrightYellow

\* C8: for 360 x 640 the returned strokes list is non-empty: the first petal
\* candidate of the first flower is always accepted.
C8_FirstPetalAccepted ==
  Returned /\ gen.width = 360 /\ gen.height = 640 =>
    Len(gen.strokes) >= 1 /\ FirstYellowAt(FirstPetal(360, 640))

\* C8 witness: a 360 x 640 call has returned, after rejections, with the first
\* petal in its list.
C8_Witness ==
  /\ Returned /\ gen.width = 360 /\ gen.height = 640 /\ Rejections > 0
  /\ FirstYellowAt([ x |-> 1575, y |-> 3200 ])

\* C9: every call returns exactly 27 shapes.
C9_TwentySevenShapes == Returned => Len(gen.shapes) = 27

\* C9 witness: 27 shapes are returned by a call that accepted some candidates
\* and rejected others.
C9_Witness ==
  Returned /\ Len(gen.shapes) = 27 /\ Len(gen.strokes) > 0 /\ Rejections > 0

\* The strokes as the last generateSunflowersData call returned them.
Generated == IF app.levelSeed < 0 THEN << >> ELSE LevelDataAt(app.levelSeed).strokes

\* C10: after a level is generated, the clicks handled by handleStrokeClick
\* change only the currentColor of a stroke with the clicked id: the number
\* and order of the strokes and every stroke's id, path, targetColor and
\* zIndex are as generated, and a stroke whose id was not clicked is as
\* generated.
C10_OnlyCurrentColorOfClicked ==
  LET generated == Generated
  IN  /\ Len(app.strokes) = Len(generated)
      /\ \A i \in 1..Len(app.strokes) :
           /\ [ app.strokes[i] EXCEPT !.currentColor = "null" ] = generated[i]
           /\ app.strokes[i].currentColor # "null" => app.strokes[i].id \in app.clicked

\* C10 witness: after several clicks one stroke is painted and another,
\* whose id was not clicked, is as generated.
C10_Witness ==
  /\ app.clicks >= 2
  /\ \E i \in 1..Len(app.strokes) : app.strokes[i].currentColor # "null"
  /\ \E i \in 1..Len(app.strokes) :
       app.strokes[i].id \notin app.clicked /\ app.strokes[i] = Generated[i]

\* What a call of its own returns for the state Math.random was in when the
\* call under way began.
AloneFrom(g) == generateSunflowersData(g.width, g.height, g.seed)

\* C11: successive calls do not interact.  A call that has made no addStroke
\* call yet has empty accumulators, no stroke and zIndexCounter 0, whatever
\* the calls before it accepted; the first stroke of every call has zIndex 0;
\* and a later call returns the strokes and shapes a call of its own returns
\* from the same state of Math.random, so none of its candidates was rejected
\* because of an earlier call's strokes.
C11_CallsDoNotInteract ==
  /\ gen.calls = 0 =>
       /\ gen.strokes = << >> /\ gen.zIndexCounter = 0
       /\ DOMAIN gen.strokeBoundsByColor = {} /\ DOMAIN gen.strokeCentersByColor = {}
  /\ Len(gen.strokes) >= 1 => gen.strokes[1].zIndex = 0
  /\ Returned /\ gen.call >= 1 => LevelDataOf(gen) = AloneFrom(gen)

\* C11 witness: a second 360 x 640 call (the first one accepted strokes) has
\* returned, with accepted and rejected candidates, its first stroke at
\* zIndex 0.
C11_Witness ==
  /\ Returned /\ gen.call >= 1 /\ gen.width = 360 /\ gen.height = 640
  /\ Rejections > 0 /\ Len(gen.strokes) >= 1 /\ gen.strokes[1].zIndex = 0

\* The state startGame leaves: a level as generateSunflowersData returned it
\* for the state Math.random was in (rng), nothing painted, and the game reset.
FreshGame(a, rng) ==
  /\ a.levelSeed = rng
  /\ a.strokes = LevelDataAt(rng).strokes /\ a.shapes = LevelDataAt(rng).shapes
  /\ \A i \in 1..Len(a.strokes) : a.strokes[i].currentColor = "null"
  /\ a.gameState.status = "playing" /\ a.gameState.madness = 0
  /\ a.gameState.endTime = "null"
  /\ a.selectedColor = PALETTE_COLORS[1]
  /\ ~a.hintVisible /\ ~a.hintRewarded /\ a.hintColor = "null"
  /\ ~a.hintTimerRef.pending /\ a.satisfiedTimerRef # "pending"

\* C12: every startGame call (from idle, won or lost, whatever is painted and
\* whatever hint or timer is pending) leaves a freshly generated level with
\* every currentColor null, status 'playing', madness 0, endTime null, the
\* first palette color selected, no hint visible or rewarded, and neither a
\* hint timer nor a satisfied-message timer pending.
C12_StartGameResets ==
  [][app'.starts # app.starts => FreshGame(app', gen.rng)]_vars

\* C12 witness: the game startGame left after a level was won: the second
\* level of the session, unpainted, with a painting completed before it.
C12_Witness ==
  /\ app.starts = 2 /\ app.paintingsCompleted = 1
  /\ FreshGame(app, app.levelSeed) /\ Len(app.strokes) > 0

\* A click with strokeId reaches a stroke that is not correctly filled,
\* while playing.
ClickPaints(a, strokeId) ==
  /\ a.gameState.status = "playing"
  /\ findIndex(a.strokes, strokeId) # 0
  /\ LET stroke == a.strokes[findIndex(a.strokes, strokeId)]
     IN  stroke.currentColor # stroke.targetColor

\* The game after the click and the renders that follow it.
AfterClick(a, strokeId) == Settle(a, handleStrokeClick(a, strokeId))

\* C13: while playing, a click on a stroke not correctly filled, with a
\* selected color other than its targetColor, raises madness by 15, capped at
\* 100, and never lowers it; the stroke's currentColor becomes the selected
\* color.  (The stroke is the one handleStrokeClick finds for the id.)
C13_WrongClickPenalty ==
  \A strokeId \in ClickIds(app) :
    /\ ClickPaints(app, strokeId)
    /\ app.selectedColor # app.strokes[findIndex(app.strokes, strokeId)].targetColor
    =>
      LET after == AfterClick(app, strokeId)
      IN  /\ after.gameState.madness
               = Min(100 * MadnessScale, app.gameState.madness + 15 * MadnessScale)
          /\ after.gameState.madness >= app.gameState.madness
          /\ after.strokes[findIndex(app.strokes, strokeId)].currentColor = app.selectedColor

\* C13 witness: wrong clicks have taken madness to the cap: after one long
\* wait (75) and two wrong clicks the game is lost at 100, a stroke holding
\* a wrong color.
C13_Witness ==
  /\ app.gameState.status = "lost" /\ app.gameState.madness = 100 * MadnessScale
  /\ app.waits = 1 /\ app.clicks = 2
  /\ \E i \in 1..Len(app.strokes) :
       app.strokes[i].currentColor \notin { "null", app.strokes[i].targetColor }

\* The hint is followed: the selected color is the hint color and the hint
\* has not been rewarded.
FollowsHint(a) ==
  a.hintColor # "null" /\ a.selectedColor = a.hintColor /\ ~a.hintRewarded

\* C14: while playing, a click on a stroke not correctly filled, with its
\* targetColor selected, lowers madness, floored at 0: by 30 when the
\* selected color is the hint color and the hint is not rewarded yet, by 2
\* otherwise.
C14_CorrectClickReward ==
  \A strokeId \in ClickIds(app) :
    /\ ClickPaints(app, strokeId)
    /\ app.selectedColor = app.strokes[findIndex(app.strokes, strokeId)].targetColor
    =>
      AfterClick(app, strokeId).gameState.madness
        = Max(0, app.gameState.madness
                 - (IF FollowsHint(app) THEN 30 * MadnessScale ELSE 2 * MadnessScale))

\* C14 witness: the hint was followed by one click after a long wait:
\* madness is 30 below what the wait left, the satisfied message is up and
\* its timer runs.
C14_Witness ==
  /\ app.gameState.status = "playing"
  /\ app.isSatisfiedMessage /\ app.satisfiedTimerRef = "pending"
  /\ app.waits = 1 /\ app.clicks = 1
  /\ app.gameState.madness = LongWait * MADNESS_INCREASE_RATE - 30 * MadnessScale
  /\ \E i \in 1..Len(app.strokes) : app.strokes[i].currentColor = app.strokes[i].targetColor

\* C15: madness is in [0, 100] in every state, and the game is lost exactly
\* when madness is 100: no state has madness 100 and another status, and
\* while playing madness is below 100.
C15_MadnessRangeAndLoss ==
  /\ app.gameState.madness >= 0 /\ app.gameState.madness <= 100 * MadnessScale
  /\ app.gameState.status = "lost" <=> app.gameState.madness = 100 * MadnessScale
  /\ app.gameState.status = "playing" => app.gameState.madness < 100 * MadnessScale

\* C15 witness: the game was lost by the timer alone, at madness 100, with
\* endTime set.
C15_Witness ==
  /\ app.gameState.status = "lost" /\ app.gameState.madness = 100 * MadnessScale
  /\ app.gameState.endTime = "now" /\ app.clicks = 0 /\ app.waits = 2

\* The path of the candidate of the latest addStroke call, and the strokes
\* accepted before that call.
Candidate ==
  createBrushStroke(gen.last.x, gen.last.y, gen.last.length, gen.last.angle,
                    gen.last.width, gen.last.curvature)

Earlier ==
  IF gen.last.accepted THEN SubSeq(gen.strokes, 1, Len(gen.strokes) - 1) ELSE gen.strokes

\* The candidate passes the three tests, taken over the strokes of its color
\* accepted earlier.
Fits(path, earlier) ==
  LET box == PathBounds(path)
      sameColor == { i \in 1..Len(earlier) : earlier[i].targetColor = gen.last.color }
  IN  /\ box.minX >= -5 * Scale /\ box.minY >= -5 * Scale
      /\ box.maxX <= (gen.width + 5) * Scale /\ box.maxY <= (gen.height + 5) * Scale
      /\ \A i \in sameColor :
           distance(PathMidpoint(path), PathMidpoint(earlier[i].path))
             >= gen.last.minDistance
      /\ \A i \in sameColor :
           IntersectionArea(box, PathBounds(earlier[i].path)) * 100
             <= 30 * Min(BoxArea(box), BoxArea(PathBounds(earlier[i].path)))

\* C16: addStroke accepts its candidate if and only if the candidate's
\* bounding box is within the 5-unit margin, no stroke of the same target
\* color accepted earlier has its midpoint nearer than the candidate's
\* minimum distance, and none overlaps its box by more than 30% of the
\* smaller box; strokes of other colors do not count.  An accepted candidate
\* is the stroke appended.
C16_AcceptedIffFits ==
  gen.calls > 0 =>
    /\ gen.last.accepted <=> Fits(Candidate, Earlier)
    /\ gen.last.accepted =>
         /\ gen.strokes[Len(gen.strokes)].path = Candidate
         /\ gen.strokes[Len(gen.strokes)].targetColor = gen.last.color

\* C16 witness: an accepted candidate whose box fully covers the box of a
\* stroke of another color accepted earlier.
C16_Witness ==
  /\ gen.calls > 0 /\ gen.last.accepted
  /\ \E i \in 1..Len(Earlier) :
       /\ Earlier[i].targetColor # gen.last.color
       /\ LET a == PathBounds(Candidate)
              b == PathBounds(Earlier[i].path)
          IN  a.minX <= b.minX /\ a.minY <= b.minY /\ a.maxX >= b.maxX /\ a.maxY >= b.maxY

\* C17: an addStroke call that rejects its candidate leaves the strokes
\* list, the zIndex counter and both per-color accumulators (and the shapes)
\* as they were, and does not end the call: the loop that made it goes on.
C17_RejectionChangesNothing ==
  [][gen'.calls = gen.calls + 1 /\ ~gen'.last.accepted =>
       /\ gen'.strokes = gen.strokes
       /\ gen'.zIndexCounter = gen.zIndexCounter
       /\ gen'.strokeBoundsByColor = gen.strokeBoundsByColor
       /\ gen'.strokeCentersByColor = gen.strokeCentersByColor
       /\ gen'.shapes = gen.shapes
       /\ gen'.pc # "done"]_vars

\* C17 witness: a candidate inside the margin has just been rejected, for a
\* stroke of its color accepted earlier, and the call went on to return.
C17_Witness ==
  /\ Returned /\ gen.calls > 0 /\ ~gen.last.accepted /\ Len(gen.strokes) > 0
  /\ LET box == PathBounds(Candidate)
     IN  /\ box.minX >= -5 * Scale /\ box.minY >= -5 * Scale
         /\ box.maxX <= (gen.width + 5) * Scale /\ box.maxY <= (gen.height + 5) * Scale

\* The number of strokes accepted for a region of flower idx.
StrokesOf(region, idx) ==
  Cardinality({ i \in 1..Len(gen.regionOf) :
                  gen.regionOf[i].region = region /\ gen.regionOf[i].idx = idx })

\* C18: at no time does the list hold more than 18 sky strokes, 12 table
\* strokes, 10 vase strokes and 4, 3 and 3 center dots for the three flowers;
\* an area-fill loop makes one addStroke call per attempt, at most its
\* budget of them, and none once its target is reached (a rejected candidate
\* was tried below the target).
C18_AreaFillWithinTargets ==
  /\ StrokesOf("sky", 0) <= 18 /\ StrokesOf("table", 0) <= 12
  /\ StrokesOf("vase", 0) <= 10
  /\ StrokesOf("center", 0) <= 4 /\ StrokesOf("center", 1) <= 3
  /\ StrokesOf("center", 2) <= 3
  /\ gen.skyStrokesAdded = StrokesOf("sky", 0)
  /\ gen.pc = "sky" => gen.attempt <= 72 /\ gen.regionCalls = gen.attempt
  /\ gen.pc = "table" => gen.attempt <= 48 /\ gen.regionCalls = gen.attempt
  /\ gen.pc = "vase" => gen.attempt <= 40 /\ gen.regionCalls = gen.attempt
  /\ gen.pc = "center" =>
       gen.attempt <= 6 * (IF gen.idx = 0 THEN 4 ELSE 3) /\ gen.regionCalls = gen.attempt
  /\ gen.regionCalls > 0 /\ ~gen.last.accepted =>
       /\ gen.pc = "sky" => StrokesOf("sky", 0) < 18
       /\ gen.pc = "table" => StrokesOf("table", 0) < 12
       /\ gen.pc = "vase" => StrokesOf("vase", 0) < 10
       /\ gen.pc = "center" => StrokesOf("center", gen.idx) < (IF gen.idx = 0 THEN 4 ELSE 3)

\* C18 witness: a 360 x 640 call has returned with the sky at its target of
\* 18 and another area-fill region under its target, its attempts used up.
C18_Witness ==
  /\ Returned /\ gen.width = 360 /\ gen.height = 640
  /\ StrokesOf("sky", 0) = 18
  /\ \/ StrokesOf("table", 0) < 12
     \/ StrokesOf("vase", 0) < 10
     \/ StrokesOf("center", 2) < 3

\* C19: for one stem sample point or one petal, at most 3 addStroke calls
\* are made.
C19_AtMostThreeCalls ==
  gen.pc \in { "stem", "stemRetry", "petal", "petalRetry" } => gen.pointCalls <= 3

\* The number of strokes of a target color in the list.
StrokesOfColor(color) ==
  Cardinality({ i \in 1..Len(gen.strokes) : gen.strokes[i].targetColor = color })

\* C20: no two strokes were accepted for the same stem sample point or the
\* same petal; a flower has at most 6 petal strokes and 3 stem strokes, and
\* the list holds at most 18 BrightYellow and 19 GrassGreen strokes.
C20_OneStrokePerPoint ==
  /\ \A i \in 1..Len(gen.regionOf), h \in 1..Len(gen.regionOf) :
       i < h /\ gen.regionOf[i].region \in { "stem", "petal" } =>
         gen.regionOf[i] # gen.regionOf[h]
  /\ \A idx \in 0..2 : StrokesOf("petal", idx) <= 6 /\ StrokesOf("stem", idx) <= 3
  /\ StrokesOfColor(BrightYellow) <= 18
  /\ StrokesOfColor(GrassGreen) <= 19

\* C20 witness: a returned 360 x 640 level with a flower of 6 petal strokes,
\* a flower of 3 stem strokes, and a stem stroke accepted from a jittered
\* candidate (it does not start at its sample point).
C20_Witness ==
  /\ Returned /\ gen.width = 360 /\ gen.height = 640
  /\ \E idx \in 0..2 : StrokesOf("petal", idx) = 6
  /\ \E idx \in 0..2 : StrokesOf("stem", idx) = 3
  /\ \E i \in 1..Len(gen.strokes) :
       /\ gen.regionOf[i].region = "stem"
       /\ gen.strokes[i].path.start
            # StemPoint([ gen EXCEPT !.idx = gen.regionOf[i].idx,
                                     !.k = gen.regionOf[i].point ])

\* C21: the strokes are in the list, and so in zIndex order, in the order
\* their regions are generated: sky, table, vase, then for each flower in
\* turn its stem, its petals and its center dots.  So every SkyBlue stroke is
\* below every EarthYellow stroke, and within a flower the stem strokes are
\* below the petal strokes, which are below the center dots.
C21_RegionOrder ==
  LET rank(r) == CASE r.region = "sky" -> 0
                   [] r.region = "table" -> 1
                   [] r.region = "vase" -> 2
                   [] r.region = "stem" -> 3 + 3 * r.idx
                   [] r.region = "petal" -> 4 + 3 * r.idx
                   [] r.region = "center" -> 5 + 3 * r.idx
  IN  \A i \in 1..Len(gen.strokes), h \in 1..Len(gen.strokes) :
        /\ i < h => /\ rank(gen.regionOf[i]) <= rank(gen.regionOf[h])
                    /\ gen.strokes[i].zIndex < gen.strokes[h].zIndex
        /\ rank(gen.regionOf[i]) < rank(gen.regionOf[h]) =>
              gen.strokes[i].zIndex < gen.strokes[h].zIndex
        /\ gen.strokes[i].targetColor = SkyBlue /\ gen.strokes[h].targetColor = EarthYellow
              => gen.strokes[i].zIndex < gen.strokes[h].zIndex

\* C21 witness: a returned level with strokes of the sky, the table and the
\* vase and, for each of the three flowers, of its stem, petals and center.
C21_Witness ==
  /\ Returned
  /\ StrokesOf("sky", 0) > 0 /\ StrokesOf("table", 0) > 0 /\ StrokesOf("vase", 0) > 0
  /\ \A idx \in 0..2 :
       StrokesOf("stem", idx) > 0 /\ StrokesOf("petal", idx) > 0
       /\ StrokesOf("center", idx) > 0

\* C22: addStroke uses the length, width, angle, curvature and minDistance
\* its caller passes in options whenever the caller passes them, and a random
\* or default value (minDistance 15) only for an option left out; the center
\* dots, asked for with curvature 0, are built with curvature 0.
C22_OptionsUsedAsGiven ==
  gen.calls > 0 =>
    /\ \A f \in DOMAIN gen.last.options : gen.last[f] = gen.last.options[f]
    /\ "minDistance" \notin DOMAIN gen.last.options => gen.last.minDistance = 15 * Scale
    /\ gen.last.accepted /\ "curvature" \in DOMAIN gen.last.options =>
         gen.strokes[Len(gen.strokes)].path
           = createBrushStroke(gen.last.x, gen.last.y, gen.last.options.length,
                               gen.last.options.angle, gen.last.options.width,
                               gen.last.options.curvature)

\* C23: the status is 'won' only when the strokes list is not empty and every
\* stroke has its target color as its current color; once the effects have
\* run, a game with such a list is not left playing; and paintingsCompleted
\* changes exactly when the status becomes 'won', by one.
C23_WonWhenAllFilled ==
  /\ [](/\ app.gameState.status = "won" =>
            /\ Len(app.strokes) > 0
            /\ \A i \in 1..Len(app.strokes) :
                 app.strokes[i].currentColor = app.strokes[i].targetColor
        /\ app.gameState.status = "playing" /\ Len(app.strokes) > 0 =>
            \E i \in 1..Len(app.strokes) :
              app.strokes[i].currentColor # app.strokes[i].targetColor)
  /\ [][/\ app'.gameState.status = "won" /\ app.gameState.status # "won" =>
            app'.paintingsCompleted = app.paintingsCompleted + 1
        /\ app'.paintingsCompleted # app.paintingsCompleted =>
            app'.gameState.status = "won" /\ app.gameState.status = "playing"]_vars

\* C23 witness: a level of 60 strokes or more has been painted and won, and
\* it is counted.
C23_Witness ==
  /\ app.gameState.status = "won" /\ app.gameState.endTime = "now"
  /\ Len(app.strokes) >= 60 /\ app.paintingsCompleted = 1

\* C24: whatever the order of the timer's callbacks, the clicks, the win
\* effect and startGame, the status only changes from idle to playing, from
\* playing to won or lost, and from won or lost to playing; and while it is
\* 'won' or 'lost' neither a callback of the game loop nor a click changes
\* madness, endTime or a stroke.
C24_StatusTransitions ==
  /\ [][app'.gameState.status # app.gameState.status =>
          << app.gameState.status, app'.gameState.status >>
            \in { << "idle", "playing" >>, << "playing", "won" >>,
                  << "playing", "lost" >>, << "won", "playing" >>,
                  << "lost", "playing" >> }]_vars
  /\ [](app.gameState.status \in { "won", "lost" } =>
          /\ gameLoopTick(app.gameState) = app.gameState
          /\ \A strokeId \in ClickIds(app) :
               /\ AfterClick(app, strokeId).gameState = app.gameState
               /\ AfterClick(app, strokeId).strokes = app.strokes)

\* C24 witness: a game was won, another was started and is lost, with a
\* stroke that a click could otherwise paint.
C24_Witness ==
  /\ app.gameState.status = "lost" /\ app.paintingsCompleted = 1 /\ app.starts = 2
  /\ \E strokeId \in ClickIds(app) :
       /\ findIndex(app.strokes, strokeId) # 0
       /\ app.strokes[findIndex(app.strokes, strokeId)].currentColor
            # app.strokes[findIndex(app.strokes, strokeId)].targetColor

\* C25: whenever a hint becomes visible, its color is the target color of a
\* stroke not correctly filled at that moment and is not the color selected
\* at that moment, whatever the player painted or selected since the hint
\* timer was set; when there is no such color no hint becomes visible.
C25_HintColorIsCurrent ==
  [][app'.hintVisible /\ ~app.hintVisible =>
       /\ app'.hintColor # app'.selectedColor
       /\ \E i \in 1..Len(app'.strokes) :
            /\ app'.strokes[i].targetColor = app'.hintColor
            /\ app'.strokes[i].currentColor # app'.strokes[i].targetColor]_vars

\* C26: once the effects have run, a hint or satisfied message is shown only
\* while the status is 'playing' and madness is above 50; at madness 50 or
\* less, or outside 'playing', none is shown and no hint timer is pending;
\* and never more than one hint timer is pending, the one hintTimerRef holds.
C26_HintOnlyAboveThreshold ==
  /\ app.hintVisible =>
       app.gameState.status = "playing" /\ app.gameState.madness > 50 * MadnessScale
  /\ app.gameState.status # "playing" \/ app.gameState.madness <= 50 * MadnessScale =>
       ~app.hintVisible /\ ~app.hintTimerRef.pending /\ app.timers = 0
  /\ app.timers = (IF app.hintTimerRef.pending THEN 1 ELSE 0)

\* C26 witness: a hint was followed and the click took madness from above 50
\* to 50 or less: the satisfied message is hidden before its timer fires, and
\* no hint timer is pending.
C26_Witness ==
  /\ app.gameState.status = "playing" /\ app.gameState.madness <= 50 * MadnessScale
  /\ app.isSatisfiedMessage /\ app.satisfiedTimerRef = "pending"
  /\ ~app.hintVisible /\ ~app.hintTimerRef.pending

\* C27: the 30-point reduction is given to at most one click per hint shown:
\* after the first correct click with the hinted color, and until a hint is
\* shown again, a click lowers madness by at most 2.
C27_OneRewardPerHint ==
  /\ app.rewards <= 1
  /\ app.rewards = 1 =>
       \A strokeId \in ClickIds(app) :
         AfterClick(app, strokeId).gameState.madness
           >= app.gameState.madness - 2 * MadnessScale

\* C27 witness: a hint for the first stroke's color was followed at madness
\* 85 and, the hint still standing at 55, the second stroke was filled with
\* the same color for a reduction of 2.
C27_Witness ==
  /\ app.gameState.status = "playing" /\ app.rewards = 1 /\ app.hintRewarded
  /\ app.hintColor = app.strokes[1].targetColor /\ app.selectedColor = app.hintColor
  /\ \A i \in { 1, 2 } : app.strokes[i].currentColor = app.hintColor
                         /\ app.strokes[i].targetColor = app.hintColor
  /\ app.gameState.madness = LongWait + ShortWait - 30 * MadnessScale - 2 * MadnessScale

\* C28: in a game being played, with the callbacks of the game loop coming
\* and no correct click, madness never goes down, and the game is lost in
\* the end, at madness 100 and with endTime set.
C28_TicksLeadToLoss ==
  /\ [][app.gameState.status = "playing" =>
          app'.gameState.madness >= app.gameState.madness]_vars
  /\ (app.gameState.status = "playing")
       ~> (/\ app.gameState.status = "lost"
           /\ app.gameState.madness = 100 * MadnessScale
           /\ app.gameState.endTime = "now")

\* C28 witness: a game with a wrongly painted stroke and a hint that was
\* shown is lost at madness 100.
C28_Witness ==
  /\ app.gameState.status = "lost" /\ app.gameState.madness = 100 * MadnessScale
  /\ app.gameState.endTime = "now" /\ app.clicks = 1 /\ app.hintColor # "null"
  /\ \E i \in 1..Len(app.strokes) :
       app.strokes[i].currentColor \notin { "null", app.strokes[i].targetColor }

\* --- Clicks on the canvases.  The canvas element takes up the canvas's own
\* 360 x 640 box, or a box at (10, 5) of 200 x 320 in which the canvas is
\* shown at half its size, centered (in tenths).
Rects ==
  { [ left |-> 0, top |-> 0, width |-> CANVAS_WIDTH * Scale, height |-> CANVAS_HEIGHT * Scale ],
    [ left |-> 100, top |-> 50, width |-> 2000, height |-> 3200 ] }

\* The points a click is made at: the middles of the first, the eighth and
\* the last stroke (in the sessions' first levels the eighth stroke lies
\* under a later one there), and a point off the canvas.
ClickPoints(a) ==
  { [ x |-> (a.strokes[i].path.start.x + a.strokes[i].path.end.x
             + a.strokes[i].path.endOff.x + a.strokes[i].path.startOff.x) \div 4,
      y |-> (a.strokes[i].path.start.y + a.strokes[i].path.end.y
             + a.strokes[i].path.endOff.y + a.strokes[i].path.startOff.y) \div 4 ] :
      i \in { 1, 8, Len(a.strokes) } \cap DOMAIN a.strokes }
  \cup { [ x |-> -10, y |-> -10 ] }

\* The game after a click at point on the reality canvas or on the painting
\* canvas: the painting canvas of a game being played calls handleStrokeClick
\* with the ids handleClick gives.
canvasClick(a, isReality, rect, point) ==
  LET reported == handleClick(a.strokes, isReality, CANVAS_WIDTH, CANVAS_HEIGHT,
                              rect, point.x, point.y)
  IN  IF reported = << >> THEN a ELSE AfterClick(a, reported[1])

CanvasClick ==
  /\ app.gameState.status = "playing"
  /\ app.clicks < MaxClicks
  /\ \E isReality \in BOOLEAN, rect \in Rects, point \in ClickPoints(app) :
       app' = canvasClick(app, isReality, rect, point)
  /\ UNCHANGED << gen, steps >>

CanvasSpec == GameInit /\ [][StartGame \/ SelectColor \/ CanvasClick]_vars

\* C29: a click on the painting canvas reports at most one stroke, the one
\* latest in the list (of the highest zIndex) among those whose region holds
\* the click point, and none when there is none; a click on the reality
\* canvas, or on a stroke already filled with its target color, changes
\* neither the strokes nor madness.
C29_TopmostStrokeReported ==
  \A point \in ClickPoints(app) :
    LET under == { i \in 1..Len(app.strokes) :
                    isPointInPath(app.strokes[i].path, point.x, point.y) }
        own == CHOOSE rect \in Rects : rect.left = 0 /\ rect.width = CANVAS_WIDTH * Scale
        reported == handleClick(app.strokes, FALSE, CANVAS_WIDTH, CANVAS_HEIGHT,
                                own, point.x, point.y)
    IN  /\ \A rect \in Rects :
             /\ Len(handleClick(app.strokes, FALSE, CANVAS_WIDTH, CANVAS_HEIGHT,
                                rect, point.x, point.y)) <= 1
             /\ canvasClick(app, TRUE, rect, point).strokes = app.strokes
             /\ canvasClick(app, TRUE, rect, point).gameState = app.gameState
        /\ under = {} => reported = << >>
        /\ under # {} =>
             \E i \in under :
               /\ \A h \in under : h <= i /\ app.strokes[h].zIndex <= app.strokes[i].zIndex
               /\ reported = << app.strokes[i].id >>
               /\ app.strokes[i].currentColor = app.strokes[i].targetColor =>
                    /\ canvasClick(app, FALSE, own, point).strokes = app.strokes
                    /\ canvasClick(app, FALSE, own, point).gameState = app.gameState

\* C29 witness: in a game being played a click point lies in two strokes;
\* the later one is filled with its target color, the earlier one is not
\* painted.
C29_Witness ==
  /\ app.gameState.status = "playing"
  /\ \E point \in ClickPoints(app) :
       \E i \in 1..Len(app.strokes), h \in 1..Len(app.strokes) :
         /\ h < i
         /\ isPointInPath(app.strokes[i].path, point.x, point.y)
         /\ isPointInPath(app.strokes[h].path, point.x, point.y)
         /\ app.strokes[i].currentColor = app.strokes[i].targetColor
         /\ app.strokes[h].currentColor = "null"

====
